---- MODULE Spec2Model ----
(***************************************************************************)
(* A model of server.py: a static-file HTTP server built on the standard   *)
(* library's TCPServer / SimpleHTTPRequestHandler, with CORS headers, a    *)
(* MIME override and a timestamped request log.                            *)
(*                                                                         *)
(* Strings whose characters the code inspects (the port argument, request  *)
(* paths, file names) are sequences of one-character strings.              *)
(***************************************************************************)
EXTENDS Integers, Sequences, FiniteSets, TLC

VARIABLES
    argv,        \* sys.argv[1:], a sequence of argument strings
    platform,    \* "win32" or "linux": decides the errno of a failed bind
    listing,     \* what os.listdir('.') returns: the root directory's entries
    listeners,   \* ports already bound by other processes
    typesMap,    \* the system's extension -> MIME type table (mimetypes)
    pc,          \* position of the main thread
    port,        \* the port variable of __main__ / start_server
    sock,        \* the listening socket: "none", "listening", "closed"
    bindCalls,   \* number of times a TCPServer was constructed (bind attempts)
    exc,         \* the exception being propagated, or NoExc
    out,         \* standard output, a sequence of lines
    response,    \* the most recent response written to a client, or NoResponse
    handled,     \* number of requests handled so far
    interrupted, \* where the main thread was when the interrupt arrived, or ""
    exitStatus,  \* the process's exit status, or -1 while running
    mimePath,    \* argument of the guess_type call under test
    mimeResult   \* its result, or NoResult before the call

vars == <<argv, platform, listing, listeners, typesMap, pc, port, sock,
          bindCalls, exc, out, response, handled, interrupted, exitStatus,
          mimePath, mimeResult>>

(***************************************************************************)
(* Bounds of the model.                                                    *)
(***************************************************************************)
MaxRequests == 2
MaxEntries == 2
MaxPieces == 2

(***************************************************************************)
(* Character strings.                                                      *)
(***************************************************************************)
Str_index_html == <<"i","n","d","e","x",".","h","t","m","l">>
Str_index_htm == <<"i","n","d","e","x",".","h","t","m">>
Str_app_js == <<"a","p","p",".","j","s">>
Str_sub == <<"s","u","b">>
Str_nope_css == <<"n","o","p","e",".","c","s","s">>

Str_js == <<".","j","s">>
Str_css == <<".","c","s","s">>
Str_html == <<".","h","t","m","l">>
Str_json == <<".","j","s","o","n">>
Str_png == <<".","p","n","g">>

Digits == {"0","1","2","3","4","5","6","7","8","9"}

DigitVal ==
    "0" :> 0 @@ "1" :> 1 @@ "2" :> 2 @@ "3" :> 3 @@ "4" :> 4 @@
    "5" :> 5 @@ "6" :> 6 @@ "7" :> 7 @@ "8" :> 8 @@ "9" :> 9

\* int(s) raising ValueError
NoInt == [ok |-> FALSE, value |-> 0]

RECURSIVE Strip(_)
Strip(s) ==
    IF s = <<>> THEN s
    ELSE IF Head(s) = " " THEN Strip(Tail(s))
    ELSE IF s[Len(s)] = " " THEN Strip(SubSeq(s, 1, Len(s) - 1))
    ELSE s

RECURSIVE DecimalValue(_, _)
DecimalValue(s, acc) ==
    IF s = <<>> THEN acc
    ELSE IF Head(s) = "_" THEN DecimalValue(Tail(s), acc)
    ELSE DecimalValue(Tail(s), 10 * acc + DigitVal[Head(s)])

\* int(s): surrounding whitespace is stripped, one optional sign, then
\* decimal digits in which single underscores may separate digits.
ParseInt(s) ==
    LET t == Strip(s)
        signed == t # <<>> /\ Head(t) \in {"+", "-"}
        body == IF signed THEN Tail(t) ELSE t
        wellFormed ==
            /\ body # <<>>
            /\ \A i \in 1..Len(body) : body[i] \in Digits \cup {"_"}
            /\ body[1] \in Digits
            /\ body[Len(body)] \in Digits
            /\ \A i \in 1..(Len(body) - 1) : ~(body[i] = "_" /\ body[i+1] = "_")
    IN  IF ~wellFormed THEN NoInt
        ELSE IF signed /\ Head(t) = "-"
        THEN [ok |-> TRUE, value |-> 0 - DecimalValue(body, 0)]
        ELSE [ok |-> TRUE, value |-> DecimalValue(body, 0)]

(***************************************************************************)
(* MIME inference.                                                         *)
(***************************************************************************)
None == "None"

\* str.endswith
EndsWith(s, suffix) ==
    /\ Len(suffix) <= Len(s)
    /\ SubSeq(s, Len(s) - Len(suffix) + 1, Len(s)) = suffix

\* str.rfind, 1-based; 0 when the character does not occur
RFind(s, c) ==
    LET hits == {i \in 1..Len(s) : s[i] = c}
    IN  IF hits = {} THEN 0 ELSE CHOOSE i \in hits : \A j \in hits : j <= i

\* posixpath.splitext(path)[1]: the extension of the last path component,
\* leading dots of that component not counting as an extension
SplitExt(path) ==
    LET sepIndex == RFind(path, "/")
        dotIndex == RFind(path, ".")
    IN  IF /\ dotIndex > sepIndex
           /\ \E i \in (sepIndex + 1)..(dotIndex - 1) : path[i] # "."
        THEN SubSeq(path, dotIndex, Len(path))
        ELSE <<>>

LowerChar(c) == IF c = "J" THEN "j" ELSE IF c = "S" THEN "s" ELSE c

Lower(s) == [i \in 1..Len(s) |-> LowerChar(s[i])]

\* mimetypes.guess_type(path)[0] against the system table types
GeneralLookup(path, types) ==
    LET ext == SplitExt(path)
    IN  IF ext \in DOMAIN types THEN types[ext]
        ELSE IF Lower(ext) \in DOMAIN types THEN types[Lower(ext)]
        ELSE None

\* guess_type preferring the general lookup to the suffix rules
guess_type_lookup_first(path, types) ==
    LET mimetype == GeneralLookup(path, types)
    IN  IF mimetype # None THEN mimetype
        ELSE IF EndsWith(path, Str_js) THEN "text/javascript"
        ELSE IF EndsWith(path, Str_css) THEN "text/css"
        ELSE IF EndsWith(path, Str_html) THEN "text/html; charset=utf-8"
        ELSE IF EndsWith(path, Str_json) THEN "application/json"
        ELSE "application/octet-stream"

\* CustomHTTPRequestHandler.guess_type
guess_type(path, types) ==
    LET mimetype == GeneralLookup(path, types)
    IN  IF EndsWith(path, Str_js) THEN "text/javascript"
        ELSE IF EndsWith(path, Str_css) THEN "text/css"
        ELSE IF EndsWith(path, Str_html) THEN "text/html; charset=utf-8"
        ELSE IF EndsWith(path, Str_json) THEN "application/json"
        ELSE IF mimetype # None THEN mimetype
        ELSE "application/octet-stream"

\* Three system tables: a usual one, one whose entries for the four
\* overridden extensions differ from the policy, and an empty one.
UsualTypes ==
    Str_js :> "text/javascript" @@ Str_css :> "text/css" @@
    Str_html :> "text/html" @@ Str_json :> "application/json" @@
    Str_png :> "image/png"

OddTypes ==
    Str_js :> "text/plain" @@ Str_css :> "application/x-css" @@
    Str_html :> "application/xhtml+xml" @@ Str_json :> "text/plain" @@
    Str_png :> "image/png"

EmptyTypes == [e \in {} |-> None]

TypesMaps == {UsualTypes, OddTypes, EmptyTypes}

\* Paths given to guess_type: concatenations of at most MaxPieces pieces.
Pieces ==
    {<<"a">>, <<"/">>, <<".">>, <<"s">>, <<".","j">>, <<"o","n">>,
     Str_js, Str_css, Str_html, Str_json, Str_png, <<".","J","S">>}

RECURSIVE PathsOfPieces(_)
PathsOfPieces(n) ==
    IF n = 0 THEN {<<>>}
    ELSE LET shorter == PathsOfPieces(n - 1)
         IN  shorter \cup {p \o q : p \in shorter, q \in Pieces}

MimePaths == PathsOfPieces(MaxPieces)

(***************************************************************************)
(* The root directory.                                                     *)
(***************************************************************************)
Entries ==
    {[name |-> Str_index_html, kind |-> "file"],
     [name |-> Str_app_js, kind |-> "file"],
     [name |-> Str_sub, kind |-> "dir"]}

RECURSIVE ListingsUpTo(_)
ListingsUpTo(n) ==
    IF n = 0 THEN {<<>>}
    ELSE LET shorter == ListingsUpTo(n - 1)
         IN  shorter \cup {Append(l, e) : l \in shorter, e \in Entries}

\* results of os.listdir: every name occurs at most once, in any order
Listings ==
    {l \in ListingsUpTo(MaxEntries) :
        \A i, j \in 1..Len(l) : l[i].name = l[j].name => i = j}

\* os.path.exists(name) in the root directory
Exists(dir, name) == \E i \in 1..Len(dir) : dir[i].name = name

IsFile(dir, name) ==
    \E i \in 1..Len(dir) : dir[i].name = name /\ dir[i].kind = "file"

IsDir(dir, name) ==
    \E i \in 1..Len(dir) : dir[i].name = name /\ dir[i].kind = "dir"

(***************************************************************************)
(* Requests.  version is the third word of the request line, "" when the   *)
(* request line has two words only (an HTTP/0.9 request).  notModified     *)
(* says that the request carries an If-Modified-Since header not older     *)
(* than the file and no If-None-Match header.                              *)
(***************************************************************************)
Str_slash == <<"/">>

Request(c, p, v, nm) ==
    [command |-> c, path |-> p, version |-> v, notModified |-> nm]

RequestPaths ==
    {Str_slash, Str_slash \o Str_app_js, Str_slash \o Str_index_html,
     Str_slash \o Str_sub, Str_slash \o Str_nope_css}

Requests ==
    {Request("GET", p, "HTTP/1.1", FALSE) : p \in RequestPaths}
    \cup {Request("HEAD", Str_slash \o Str_app_js, "HTTP/1.0", FALSE),
          Request("POST", Str_slash \o Str_app_js, "HTTP/1.1", FALSE),
          Request("GET", Str_slash \o Str_app_js, "HTTP/1.1", TRUE),
          Request("GET", Str_slash \o Str_app_js, "", FALSE),
          Request("POST", Str_slash, "", FALSE),
          Request("GET", Str_slash \o Str_app_js, "FOO/1.1", FALSE),
          Request("GET", Str_slash \o Str_app_js, "HTTP/2.0", FALSE)}

\* the version number parse_request reads from the third word
VersionNumber(v) ==
    IF v = "HTTP/1.0" THEN <<1, 0>>
    ELSE IF v = "HTTP/1.1" THEN <<1, 1>>
    ELSE IF v = "HTTP/2.0" THEN <<2, 0>>
    ELSE <<>>

(***************************************************************************)
(* The request handler.  A handler value h carries the fields of the       *)
(* handler object that the response depends on:                            *)
(*   request_version  the version the reply is written for                 *)
(*   command          self.command (None until the request line is valid)  *)
(*   requestline      the request line, for the log                        *)
(*   buf              _headers_buffer                                      *)
(*   wire             what has been written to the client                  *)
(*   log              the lines printed                                    *)
(***************************************************************************)
NewHandler(req) ==
    [request_version |-> "HTTP/0.9",
     command |-> None,
     requestline |-> <<req.command, req.path, req.version>>,
     buf |-> <<>>,
     wire |-> <<>>,
     log |-> <<>>]

\* log_message printing the text without the timestamp
log_message_without_timestamp(h, text) ==
    [h EXCEPT !.log = Append(@, <<"", text>>)]

\* CustomHTTPRequestHandler.log_message: one printed line, the bracketed
\* timestamp followed by the formatted text
log_message(h, text) ==
    [h EXCEPT !.log = Append(@, <<"[timestamp]", text>>)]

\* BaseHTTPRequestHandler.log_request(code): '"%s" %s %s' with size '-'
log_request(h, code) ==
    log_message(h, <<"request", h.requestline, code, "-">>)

\* BaseHTTPRequestHandler.log_error("code %d, message %s", code, message)
log_error(h, code, message) ==
    log_message(h, <<"code_message", code, message>>)

send_response_only(h, code) ==
    IF h.request_version # "HTTP/0.9"
    THEN [h EXCEPT !.buf = Append(@, <<"Status", code>>)]
    ELSE h

send_header(h, keyword, value) ==
    IF h.request_version # "HTTP/0.9"
    THEN [h EXCEPT !.buf = Append(@, <<keyword, value>>)]
    ELSE h

send_response(h, code) ==
    send_header(
        send_header(send_response_only(log_request(h, code), code),
                    "Server", "SimpleHTTP"),
        "Date", "now")

\* BaseHTTPRequestHandler.end_headers: terminate and flush the header block
base_end_headers(h) ==
    IF h.request_version # "HTTP/0.9"
    THEN [h EXCEPT !.wire = @ \o h.buf \o << <<"End", "">> >>, !.buf = <<>>]
    ELSE h

\* end_headers leaving out Access-Control-Allow-Headers
end_headers_without_allow_headers(h) ==
    base_end_headers(
        send_header(
            send_header(h, "Access-Control-Allow-Origin", "*"),
            "Access-Control-Allow-Methods", "GET, POST, OPTIONS"))

\* CustomHTTPRequestHandler.end_headers
end_headers(h) ==
    base_end_headers(
        send_header(
            send_header(
                send_header(h, "Access-Control-Allow-Origin", "*"),
                "Access-Control-Allow-Methods", "GET, POST, OPTIONS"),
            "Access-Control-Allow-Headers", "Content-Type"))

write_body(h, what) == [h EXCEPT !.wire = Append(@, <<"Body", what>>)]

\* BaseHTTPRequestHandler.send_error
send_error(h, code, message) ==
    LET h1 == send_header(send_response(log_error(h, code, message), code),
                          "Connection", "close")
        hasBody == code >= 200 /\ code \notin {204, 205, 304}
        h2 == IF hasBody
              THEN send_header(
                       send_header(h1, "Content-Type", "text/html;charset=utf-8"),
                       "Content-Length", "len")
              ELSE h1
        h3 == end_headers(h2)
    IN  IF h.command # "HEAD" /\ hasBody THEN write_body(h3, "error page")
        ELSE h3

\* SimpleHTTPRequestHandler.translate_path: the path below the root
\* directory that the request path names (<<>> is the root itself)
translate_path(path) ==
    IF path # <<>> /\ Head(path) = "/" THEN Tail(path) ELSE path

\* SimpleHTTPRequestHandler.list_directory
list_directory(h) ==
    [h |-> end_headers(
               send_header(
                   send_header(send_response(h, 200),
                               "Content-type", "text/html; charset=utf-8"),
                   "Content-Length", "len")),
     f |-> "directory listing"]

\* SimpleHTTPRequestHandler.send_head, serving the file named name
send_file(h, req, dir, types, name) ==
    LET ctype == guess_type(name, types)
    IN  IF EndsWith(name, Str_slash) \/ ~IsFile(dir, name)
        THEN [h |-> send_error(h, 404, "File not found"), f |-> None]
        ELSE IF req.notModified
        THEN [h |-> end_headers(send_response(h, 304)), f |-> None]
        ELSE [h |-> end_headers(
                        send_header(
                            send_header(
                                send_header(send_response(h, 200),
                                            "Content-type", ctype),
                                "Content-Length", "len"),
                            "Last-Modified", "mtime")),
              f |-> "file bytes"]

\* SimpleHTTPRequestHandler.send_head
send_head(h, req, dir, types) ==
    LET name == translate_path(req.path)
    IN  IF name = <<>> \/ IsDir(dir, name)
        THEN IF ~EndsWith(req.path, Str_slash)
             THEN [h |-> end_headers(
                             send_header(
                                 send_header(send_response(h, 301),
                                             "Location", req.path \o Str_slash),
                                 "Content-Length", "0")),
                   f |-> None]
             ELSE IF IsFile(dir, name \o Str_index_html)
             THEN send_file(h, req, dir, types, name \o Str_index_html)
             ELSE IF IsFile(dir, name \o Str_index_htm)
             THEN send_file(h, req, dir, types, name \o Str_index_htm)
             ELSE list_directory(h)
        ELSE send_file(h, req, dir, types, name)

\* SimpleHTTPRequestHandler.do_GET
do_GET(h, req, dir, types) ==
    LET r == send_head(h, req, dir, types)
    IN  IF r.f # None THEN write_body(r.h, r.f) ELSE r.h

\* SimpleHTTPRequestHandler.do_HEAD
do_HEAD(h, req, dir, types) == send_head(h, req, dir, types).h

\* BaseHTTPRequestHandler.parse_request: the handler after parsing and
\* whether parsing succeeded; on failure the error reply has been sent
parse_request(h, req) ==
    LET number == VersionNumber(req.version)
        h1 == IF req.version # ""
              THEN [h EXCEPT !.request_version = req.version]
              ELSE h
    IN  IF req.version # "" /\ number = <<>>
        THEN [h |-> send_error(h, 400, "Bad request version"), ok |-> FALSE]
        ELSE IF req.version # "" /\ number[1] >= 2
        THEN [h |-> send_error(h, 505, "Invalid HTTP version"), ok |-> FALSE]
        ELSE IF req.version = "" /\ req.command # "GET"
        THEN [h |-> send_error(h1, 400, "Bad HTTP/0.9 request type"),
              ok |-> FALSE]
        ELSE [h |-> [h1 EXCEPT !.command = req.command], ok |-> TRUE]

\* BaseHTTPRequestHandler.handle_one_request with the methods of
\* SimpleHTTPRequestHandler: do_GET and do_HEAD only
handle_one_request(req, dir, types) ==
    LET parsed == parse_request(NewHandler(req), req)
        h == parsed.h
    IN  IF ~parsed.ok THEN h
        ELSE IF h.command = "GET" THEN do_GET(h, req, dir, types)
        ELSE IF h.command = "HEAD" THEN do_HEAD(h, req, dir, types)
        ELSE send_error(h, 501, "Unsupported method")

(***************************************************************************)
(* The process: __main__ and start_server.                                 *)
(***************************************************************************)
DefaultPort == 8000

\* the errno start_server takes to mean "port already in use"
WSAEADDRINUSE == 10048

\* errno of the OSError that bind() raises when the address is in use:
\* WSAEADDRINUSE on Windows, EADDRINUSE elsewhere
AddrInUseErrno(plat) == IF plat = "win32" THEN WSAEADDRINUSE ELSE 98

Platforms == {"win32", "linux"}

Arg_abc == <<"a","b","c">>
Arg_8001 == <<"8","0","0","1">>
Arg_spaced == <<" ","8","0","_","0","1"," ">>
Arg_70000 == <<"7","0","0","0","0">>
Arg_minus1 == <<"-","1">>
Arg_float == <<"8","0",".","5">>
Arg_empty == <<>>

Args == {Arg_abc, Arg_8001, Arg_spaced, Arg_70000, Arg_minus1, Arg_float,
         Arg_empty}

ArgVectors == {<<>>} \cup {<<a>> : a \in Args} \cup {<<Arg_70000, Arg_8001>>}

ListenerSets == {{}, {DefaultPort, DefaultPort + 1}}

NoExc == [type |-> "none", errno |-> 0]
NoResponse == <<>>
NoResult == "no result"

Init ==
    /\ argv \in ArgVectors
    /\ platform \in Platforms
    /\ listing \in Listings
    /\ listeners \in ListenerSets
    /\ typesMap = UsualTypes
    /\ pc = "main"
    /\ port = DefaultPort
    /\ sock = "none"
    /\ bindCalls = 0
    /\ exc = NoExc
    /\ out = <<>>
    /\ response = NoResponse
    /\ handled = 0
    /\ interrupted = ""
    /\ exitStatus = -1
    /\ mimePath = <<>>
    /\ mimeResult = NoResult

\* the except clause of start_server that catches an exception, in the
\* order the clauses are written
ExceptClause(e) ==
    IF e.type = "KeyboardInterrupt" THEN "except KeyboardInterrupt"
    ELSE IF e.type = "OSError" THEN "except OSError"
    ELSE "except Exception"

\* __main__ without the sys.exit(1): the message is printed and the
\* server starts on the default port
Main_without_exit ==
    /\ pc = "main"
    /\ out' = IF Len(argv) > 0 /\ ~ParseInt(argv[1]).ok
              THEN Append(out, <<"port must be a number">>)
              ELSE out
    /\ port' = IF Len(argv) > 0 /\ ParseInt(argv[1]).ok
               THEN ParseInt(argv[1]).value
               ELSE port
    /\ pc' = "start_server"
    /\ UNCHANGED <<argv, platform, listing, listeners, typesMap, sock,
                   bindCalls, exc, response, handled, interrupted,
                   exitStatus, mimePath, mimeResult>>

\* __main__: read the port argument, then call start_server(port)
Main ==
    /\ pc = "main"
    /\ IF Len(argv) > 0 /\ ~ParseInt(argv[1]).ok
       THEN /\ out' = Append(out, <<"port must be a number">>)
            /\ exitStatus' = 1
            /\ pc' = "exited"
            /\ port' = port
       ELSE /\ port' = IF Len(argv) > 0 THEN ParseInt(argv[1]).value ELSE port
            /\ pc' = "start_server"
            /\ UNCHANGED <<out, exitStatus>>
    /\ UNCHANGED <<argv, platform, listing, listeners, typesMap, sock,
                   bindCalls, exc, response, handled, interrupted,
                   mimePath, mimeResult>>

\* the advisory lines start_server prints when index.html is missing
Advisory(dir) ==
    << <<"warning: no index.html">>, <<"current directory">>,
       <<"directory contents:">> >>
    \o [i \in 1..Len(dir) |-> <<"entry", dir[i].name>>]

\* the index.html check returning from start_server when the file is
\* missing
CheckIndex_returning_when_missing ==
    /\ pc = "start_server"
    /\ out' = IF ~Exists(listing, Str_index_html)
              THEN out \o Advisory(listing)
              ELSE out
    /\ pc' = IF ~Exists(listing, Str_index_html) THEN "return" ELSE "TCPServer"
    /\ UNCHANGED <<argv, platform, listing, listeners, typesMap, port, sock,
                   bindCalls, exc, response, handled, interrupted,
                   exitStatus, mimePath, mimeResult>>

\* start_server: the index.html check
CheckIndex ==
    /\ pc = "start_server"
    /\ out' = IF ~Exists(listing, Str_index_html)
              THEN out \o Advisory(listing)
              ELSE out
    /\ pc' = "TCPServer"
    /\ UNCHANGED <<argv, platform, listing, listeners, typesMap, port, sock,
                   bindCalls, exc, response, handled, interrupted,
                   exitStatus, mimePath, mimeResult>>

\* start_server: socketserver.TCPServer(("", port), ...) creates the
\* socket, binds it and listens; when bind raises, the socket is closed
\* and the exception reaches the except clauses of start_server
Bind ==
    /\ pc = "TCPServer"
    /\ bindCalls' = bindCalls + 1
    /\ IF port \notin 0..65535
       THEN /\ exc' = [type |-> "OverflowError", errno |-> 0]
            /\ sock' = "closed"
            /\ pc' = ExceptClause(exc')
       ELSE IF port \in listeners
       THEN /\ exc' = [type |-> "OSError", errno |-> AddrInUseErrno(platform)]
            /\ sock' = "closed"
            /\ pc' = ExceptClause(exc')
       ELSE /\ sock' = "listening"
            /\ pc' = "banner"
            /\ exc' = exc
    /\ UNCHANGED <<argv, platform, listing, listeners, typesMap, port, out,
                   response, handled, interrupted, exitStatus,
                   mimePath, mimeResult>>

\* start_server: the four lines printed once the server is bound
Banner ==
    /\ pc = "banner"
    /\ out' = out \o << <<"server started">>, <<"address", port>>,
                        <<"directory">>, <<"press Ctrl+C to stop">> >>
    /\ pc' = "serve_forever"
    /\ UNCHANGED <<argv, platform, listing, listeners, typesMap, port, sock,
                   bindCalls, exc, response, handled, interrupted,
                   exitStatus, mimePath, mimeResult>>

\* a request loop that a per-request error takes down: the error reply is
\* written, then the exception leaves serve_forever and closes the socket
HandleRequest_stopping_on_error ==
    /\ pc = "serve_forever"
    /\ handled < MaxRequests
    /\ \E req \in Requests :
          LET h == handle_one_request(req, listing, typesMap)
              failed == h.log[Len(h.log)][2][3] >= 400
          IN  /\ response' = h.wire
              /\ out' = out \o h.log
              /\ exc' = IF failed THEN [type |-> "RuntimeError", errno |-> 0]
                        ELSE exc
              /\ sock' = IF failed THEN "closed" ELSE sock
              /\ pc' = IF failed THEN ExceptClause(exc') ELSE pc
    /\ handled' = handled + 1
    /\ UNCHANGED <<argv, platform, listing, listeners, typesMap, port,
                   bindCalls, interrupted, exitStatus, mimePath, mimeResult>>

\* httpd.serve_forever(): one request is accepted and handled
HandleRequest ==
    /\ pc = "serve_forever"
    /\ handled < MaxRequests
    /\ \E req \in Requests :
          LET h == handle_one_request(req, listing, typesMap)
          IN  /\ response' = h.wire
              /\ out' = out \o h.log
    /\ handled' = handled + 1
    /\ UNCHANGED <<argv, platform, listing, listeners, typesMap, pc, port,
                   sock, bindCalls, exc, interrupted, exitStatus,
                   mimePath, mimeResult>>

\* Ctrl+C while the main thread is inside the try block of start_server:
\* KeyboardInterrupt leaves the with block, which closes the socket
Interrupt ==
    /\ pc \in {"start_server", "TCPServer", "banner", "serve_forever"}
    /\ interrupted' = pc
    /\ exc' = [type |-> "KeyboardInterrupt", errno |-> 0]
    /\ sock' = IF sock = "listening" THEN "closed" ELSE sock
    /\ pc' = ExceptClause(exc')
    /\ UNCHANGED <<argv, platform, listing, listeners, typesMap, port,
                   bindCalls, out, response, handled, exitStatus,
                   mimePath, mimeResult>>

\* except KeyboardInterrupt with pass for a body
ExceptKeyboardInterrupt_silent ==
    /\ pc = "except KeyboardInterrupt"
    /\ pc' = "return"
    /\ exc' = NoExc
    /\ UNCHANGED <<argv, platform, listing, listeners, typesMap, port, sock,
                   bindCalls, out, response, handled, interrupted,
                   exitStatus, mimePath, mimeResult>>

\* except KeyboardInterrupt
ExceptKeyboardInterrupt ==
    /\ pc = "except KeyboardInterrupt"
    /\ out' = Append(out, <<"server stopped">>)
    /\ pc' = "return"
    /\ exc' = NoExc
    /\ UNCHANGED <<argv, platform, listing, listeners, typesMap, port, sock,
                   bindCalls, response, handled, interrupted, exitStatus,
                   mimePath, mimeResult>>

\* except OSError
ExceptOSError ==
    /\ pc = "except OSError"
    /\ out' = IF exc.errno = WSAEADDRINUSE
              THEN out \o << <<"port in use", port>>,
                             <<"try another port", port + 1>> >>
              ELSE Append(out, <<"error starting server", exc.errno>>)
    /\ pc' = "return"
    /\ exc' = NoExc
    /\ UNCHANGED <<argv, platform, listing, listeners, typesMap, port, sock,
                   bindCalls, response, handled, interrupted, exitStatus,
                   mimePath, mimeResult>>

\* except Exception
ExceptException ==
    /\ pc = "except Exception"
    /\ out' = Append(out, <<"unknown error", exc.type>>)
    /\ pc' = "return"
    /\ exc' = NoExc
    /\ UNCHANGED <<argv, platform, listing, listeners, typesMap, port, sock,
                   bindCalls, response, handled, interrupted, exitStatus,
                   mimePath, mimeResult>>

\* start_server returns to __main__, which ends: the interpreter exits
\* with status 0
Return ==
    /\ pc = "return"
    /\ exitStatus' = 0
    /\ pc' = "exited"
    /\ UNCHANGED <<argv, platform, listing, listeners, typesMap, port, sock,
                   bindCalls, exc, out, response, handled, interrupted,
                   mimePath, mimeResult>>

Next ==
    \/ Main
    \/ CheckIndex
    \/ Bind
    \/ Banner
    \/ HandleRequest
    \/ Interrupt
    \/ ExceptKeyboardInterrupt
    \/ ExceptOSError
    \/ ExceptException
    \/ Return

Spec == Init /\ [][Next]_vars

\* The main thread keeps running its own code: once an exception has been
\* caught, the except clause and the return are executed.
FairSpec ==
    /\ Spec
    /\ WF_vars(ExceptKeyboardInterrupt)
    /\ WF_vars(ExceptOSError)
    /\ WF_vars(ExceptException)
    /\ WF_vars(Return)

(***************************************************************************)
(* guess_type on its own: the path and the system table are drawn from     *)
(* MimePaths and TypesMaps, and the one step is the call.                  *)
(***************************************************************************)
MimeInit ==
    /\ argv = <<>>
    /\ platform = "linux"
    /\ listing = <<>>
    /\ listeners = {}
    /\ typesMap \in TypesMaps
    /\ pc = "guess_type"
    /\ port = DefaultPort
    /\ sock = "none"
    /\ bindCalls = 0
    /\ exc = NoExc
    /\ out = <<>>
    /\ response = NoResponse
    /\ handled = 0
    /\ interrupted = ""
    /\ exitStatus = -1
    /\ mimePath \in MimePaths
    /\ mimeResult = NoResult

GuessTypeCall ==
    /\ pc = "guess_type"
    /\ mimeResult' = guess_type(mimePath, typesMap)
    /\ pc' = "guess_type returned"
    /\ UNCHANGED <<argv, platform, listing, listeners, typesMap, port, sock,
                   bindCalls, exc, out, response, handled, interrupted,
                   exitStatus, mimePath>>

MimeNext == GuessTypeCall

MimeSpec == MimeInit /\ [][MimeNext]_vars

(***************************************************************************)
(* Properties.                                                             *)
(***************************************************************************)
CorsHeaders ==
    {<<"Access-Control-Allow-Origin", "*">>,
     <<"Access-Control-Allow-Methods", "GET, POST, OPTIONS">>,
     <<"Access-Control-Allow-Headers", "Content-Type">>}

IsItem(item, keyword) == item[1] = keyword

\* the reply w has a terminated header block, and each of the three CORS
\* headers stands in it before the terminator
CarriesCors(w) ==
    \E e \in 1..Len(w) :
        /\ IsItem(w[e], "End")
        /\ \A c \in CorsHeaders :
              \E j \in 1..(e - 1) : IsItem(w[j], c[1]) /\ w[j][2] = c[2]

HasStatusLine(w) == \E i \in 1..Len(w) : IsItem(w[i], "Status")

StatusOf(w) == w[CHOOSE i \in 1..Len(w) : IsItem(w[i], "Status")][2]

\* C1 as stated: every response the server writes, whatever its status,
\* carries the three CORS headers before the header block is terminated.
C1_EveryResponseCarriesCors ==
    response # NoResponse => CarriesCors(response)

\* C1, amended: every response written with a status line carries the three
\* CORS headers before the terminator of its header block; the replies
\* written without status line and headers (request_version "HTTP/0.9")
\* are the only ones that do not.
C1_ResponsesWithHeadersCarryCors ==
    response # NoResponse =>
        IF HasStatusLine(response)
        THEN CarriesCors(response)
        ELSE \A i \in 1..Len(response) : IsItem(response[i], "Body")

\* an error reply (404) with its header block and the CORS headers
C1_Witness ==
    /\ response # NoResponse
    /\ HasStatusLine(response)
    /\ StatusOf(response) = 404
    /\ CarriesCors(response)

\* The MIME policy of the specification: an ordered list of
\* (suffix, content type) rules, the first match winning, and the general
\* lookup with its fallback when no rule matches.
MimeRules ==
    << <<Str_js, "text/javascript">>,
       <<Str_css, "text/css">>,
       <<Str_html, "text/html; charset=utf-8">>,
       <<Str_json, "application/json">> >>

HasSuffix(path, suffix) == \E prefix \in {SubSeq(path, 1, n) : n \in 0..Len(path)} :
                               path = prefix \o suffix

MimePolicy(path, types) ==
    LET matching == {r \in 1..Len(MimeRules) : HasSuffix(path, MimeRules[r][1])}
    IN  IF matching # {}
        THEN MimeRules[CHOOSE r \in matching : \A q \in matching : r <= q][2]
        ELSE IF SplitExt(path) \in DOMAIN types THEN types[SplitExt(path)]
        ELSE IF Lower(SplitExt(path)) \in DOMAIN types
        THEN types[Lower(SplitExt(path))]
        ELSE "application/octet-stream"

\* C2: for every path, guess_type(path) is what the ordered
\* first-match-wins policy gives, whatever the general lookup would return
\* for the four overridden suffixes.
C2_GuessTypeFollowsPolicy ==
    mimeResult # NoResult => mimeResult = MimePolicy(mimePath, typesMap)

\* a path ending in .js whose general lookup gives another type
C2_Witness ==
    /\ mimeResult = "text/javascript"
    /\ HasSuffix(mimePath, Str_js)
    /\ GeneralLookup(mimePath, typesMap) = "text/plain"

NonNumericArgs == {Arg_abc, Arg_float, Arg_empty}

\* C3: when the port argument is not an integer, the process prints the
\* numeric-port-required message and exits with status 1, and start_server
\* is never called: no index.html check, no bind, no accept loop.
C3_NonNumericPortExits ==
    (Len(argv) > 0 /\ argv[1] \in NonNumericArgs) =>
        /\ pc \in {"main", "exited"}
        /\ bindCalls = 0
        /\ sock = "none"
        /\ handled = 0
        /\ pc = "exited" =>
              /\ exitStatus = 1
              /\ out = << <<"port must be a number">> >>

C3_Witness ==
    /\ argv = <<Arg_abc>>
    /\ pc = "exited"
    /\ exitStatus = 1
    /\ out = << <<"port must be a number">> >>

PortOutOfRange == pc # "main" /\ port \notin 0..65535

\* C4: when the port argument is an integer outside the valid TCP port
\* range, the process fails fast with a non-zero exit status before any
\* attempt to bind the listening socket.
C4_OutOfRangePortFailsFast ==
    PortOutOfRange =>
        /\ bindCalls = 0
        /\ pc = "exited" => exitStatus # 0

HasLine(line) ==
    \E i \in 1..Len(out) : out[i][1] = line[1] /\ out[i] = line

HasLineOfKind(kind) == \E i \in 1..Len(out) : out[i][1] = kind

\* start_server has returned after a bind that failed because another
\* listener holds the port
BindFailedPortInUse ==
    /\ pc \in {"return", "exited"}
    /\ bindCalls > 0
    /\ port \in 0..65535
    /\ port \in listeners

\* C5: when binding fails because the port is in use, start_server prints
\* a message naming the attempted port and suggesting port + 1, and returns
\* without the success banner and without entering the accept loop.
C5_PortInUseMessage ==
    BindFailedPortInUse =>
        /\ HasLine(<<"port in use", port>>)
        /\ HasLine(<<"try another port", port + 1>>)
        /\ ~HasLineOfKind("server started")
        /\ handled = 0

InterruptedWhileServing == interrupted = "serve_forever"

StoppedCleanly ==
    /\ pc = "exited"
    /\ exitStatus = 0
    /\ sock = "closed"
    /\ out # <<>>
    /\ out[Len(out)] = <<"server stopped">>

\* C6: whenever an interrupt arrives while the server is in the accept
\* loop, the server stops accepting connections, the listening socket is
\* closed, the 'server stopped' message is printed and the process then
\* exits with status 0; after the interrupt no further request is handled.
C6_InterruptStopsServer ==
    /\ [](InterruptedWhileServing =>
            /\ sock = "closed"
            /\ pc \in {"except KeyboardInterrupt", "return", "exited"}
            /\ pc \in {"return", "exited"} =>
                  out[Len(out)] = <<"server stopped">>
            /\ pc = "exited" => exitStatus = 0)
    /\ [][InterruptedWhileServing =>
            handled' = handled /\ response' = response]_vars
    /\ (InterruptedWhileServing ~> StoppedCleanly)

C6_Witness ==
    /\ InterruptedWhileServing
    /\ handled > 0
    /\ StoppedCleanly

IndexMissing == ~Exists(listing, Str_index_html)

\* the advisory as the specification describes it: the warning, the
\* current directory, and one line per directory entry
AdvisoryAt(lines, base) ==
    /\ Len(lines) >= base + 3 + Len(listing)
    /\ lines[base + 1] = <<"warning: no index.html">>
    /\ lines[base + 2] = <<"current directory">>
    /\ lines[base + 3] = <<"directory contents:">>
    /\ \A i \in 1..Len(listing) :
          lines[base + 3 + i] = <<"entry", listing[i].name>>

NoAdvisory ==
    \A i \in 1..Len(out) :
        out[i][1] \notin {"warning: no index.html", "current directory",
                          "directory contents:", "entry"}

StartupFailed ==
    /\ pc \in {"return", "exited"}
    /\ bindCalls > 0
    /\ sock = "closed"
    /\ interrupted = ""

\* C8: on an unrecoverable startup error the process prints a message and
\* terminates with a non-zero exit status; exit status 0 occurs only for a
\* clean interrupt-triggered shutdown.
C8_StartupErrorExitsNonZero ==
    /\ StartupFailed => out # <<>>
    /\ (StartupFailed /\ pc = "exited") => exitStatus # 0
    /\ (pc = "exited" /\ exitStatus = 0) => interrupted # ""

NewLines == SubSeq(out', Len(out) + 1, Len(out'))

IsRequestLine(line) ==
    /\ line[1] = "[timestamp]"
    /\ line[2][1] = "request"
    /\ line[2][2] \in {<<r.command, r.path, r.version>> : r \in Requests}
    /\ line[2][3] \in 100..599
    /\ line[2][4] = "-"

\* C9 as stated: for every request handled exactly one line is printed,
\* the bracketed timestamp followed by the request log text; an error
\* response prints no additional line.
C9_OneLinePerRequest ==
    [][handled' # handled =>
        /\ Len(out') = Len(out) + 1
        /\ IsRequestLine(out'[Len(out')])]_vars

\* C9, amended: every line printed for a request starts with the bracketed
\* timestamp and the last of them is the request log line (request line,
\* status code, '-' for the size).  A request answered through send_error
\* (status 400 or more) prints one line before it, 'code <status>, message
\* <text>'; every other request prints exactly the one line.
C9_RequestLogLines ==
    [][handled' # handled =>
        LET n == Len(NewLines)
            last == NewLines[n]
        IN  /\ n \in {1, 2}
            /\ \A i \in 1..n : NewLines[i][1] = "[timestamp]"
            /\ IsRequestLine(last)
            /\ (n = 2) <=> (last[2][3] >= 400)
            /\ (n = 2) =>
                  /\ NewLines[1][2][1] = "code_message"
                  /\ NewLines[1][2][2] = last[2][3]]_vars

\* a 404 has been answered and logged with two lines
C9_Witness ==
    /\ handled > 0
    /\ Len(out) >= 2
    /\ out[Len(out)][1] = "[timestamp]"
    /\ out[Len(out)][2][1] = "request"
    /\ out[Len(out)][2][3] = 404
    /\ out[Len(out) - 1][1] = "[timestamp]"
    /\ out[Len(out) - 1][2][1] = "code_message"

Lifecycle == IF sock = "listening" THEN "SERVING" ELSE "STOPPED"

\* C10: the lifecycle goes from STOPPED to SERVING only when the bind
\* succeeds and from SERVING to STOPPED only on interrupt; a request,
\* whatever its outcome, leaves the server SERVING; requests are handled
\* only while SERVING; once stopped after serving, it never serves again.
C10_Lifecycle ==
    [][/\ (Lifecycle = "STOPPED" /\ Lifecycle' = "SERVING") =>
              /\ pc = "TCPServer"
              /\ bindCalls' = bindCalls + 1
              /\ port \in 0..65535
              /\ port \notin listeners
       /\ (Lifecycle = "SERVING" /\ Lifecycle' = "STOPPED") =>
              (interrupted = "" /\ interrupted' # "")
       /\ handled' # handled =>
              (Lifecycle = "SERVING" /\ Lifecycle' = "SERVING")
       /\ sock = "closed" => sock' = "closed"]_vars

\* still serving after two requests, the last of which failed
C10_Witness ==
    /\ handled >= 2
    /\ Lifecycle = "SERVING"
    /\ pc = "serve_forever"
    /\ response # NoResponse
    /\ HasStatusLine(response)
    /\ StatusOf(response) >= 400

====
